---- MODULE Spec2Model ----
(***************************************************************************)
(* A model of xslack/slack.py: the file-backed memoization of CachedClient, *)
(* the pagination loop of Channel.history_after, the alias resolution of    *)
(* Emojies/Emoji and the construction-time indices of Channels/Users.       *)
(*                                                                          *)
(* Python strings that the code takes apart or builds (method names, cache  *)
(* paths, emoji images) are sequences of tokens; Python values that travel  *)
(* through JSON are pairs <<type, text>>.                                   *)
(***************************************************************************)
EXTENDS Integers, Sequences, FiniteSets, TLC

VARIABLES
    \* CachedClient
    cache_dir,        \* client -> its cache_dir (a string)
    memo,             \* client -> self._cache: cache path -> response
    disk,             \* the file system: cache path -> JSON text of the file
    transport_calls,  \* number of calls the transport has served
    env_steps,        \* number of changes other programs made to the files
    last,             \* what the last api_call did and gave its caller
    first,            \* client -> cache path -> the first resolution of the key
    written,          \* cache path -> the response a client wrote there
    \* Channel.history_after
    h_pc,             \* "idle", "loop" (at the while test), "wait", "done", "raised"
    messages, next_ts, has_more, inclusive,
    h_args,           \* the ts and inclusive the caller gave
    h_req,            \* the history request in flight (the last one issued)
    h_nreq,           \* requests issued by this run, saturating at 2
    h_pages,          \* the pages with messages received by this run, in order
    h_in_bound,       \* every page so far held only messages after the oldest asked
    \* Emojies
    emojies, e_key, e_result,
    \* Channels / Users
    coll_kind, data, idxByName, idxById, built_from, i_result

cacheVars == <<cache_dir, memo, disk, transport_calls, env_steps, last, first, written>>
historyVars == <<h_pc, messages, next_ts, has_more, inclusive, h_args, h_req, h_nreq,
                 h_pages, h_in_bound>>
emojiVars == <<emojies, e_key, e_result>>
indexVars == <<coll_kind, data, idxByName, idxById, built_from, i_result>>
vars == <<cache_dir, memo, disk, transport_calls, env_steps, last, first, written,
          h_pc, messages, next_ts, has_more, inclusive, h_args, h_req, h_nreq,
          h_pages, h_in_bound, emojies, e_key, e_result,
          coll_kind, data, idxByName, idxById, built_from, i_result>>

----------------------------------------------------------------------------
(* Bounds *)
MaxTransport == 2
MaxEnv == 1
MaxTs == 3
MaxPageLen == 2
MaxMessages == 3
MaxInitData == 2
MaxData == 3

----------------------------------------------------------------------------
(* Python values and JSON *)

PyTrue == <<"bool", "True">>
PyFalse == <<"bool", "False">>
PyNone == <<"NoneType", "None">>
PyInt(digits) == <<"int", digits>>
PyStr(s) == <<"str", s>>

\* bool(v), as `if ret.ok` and `if not resp.ok` take it
Truthy(v) ==
    IF v[1] = "bool" THEN v[2] = "True"
    ELSE IF v[1] = "int" THEN v[2] # "0"
    ELSE IF v[1] = "str" THEN v[2] # ""
    ELSE FALSE

\* faulty variant of JsonEncode: a string goes out without its quotes
JsonEncodeUnquoted(v) ==
    IF v[1] = "bool" THEN <<"bare", IF v[2] = "True" THEN "true" ELSE "false">>
    ELSE IF v[1] = "NoneType" THEN <<"bare", "null">>
    ELSE <<"bare", v[2]>>

\* json.dump of one value: a quoted lexeme for a string, a bare one otherwise
JsonEncode(v) ==
    IF v[1] = "str" THEN <<"quoted", v[2]>>
    ELSE IF v[1] = "bool" THEN <<"bare", IF v[2] = "True" THEN "true" ELSE "false">>
    ELSE IF v[1] = "NoneType" THEN <<"bare", "null">>
    ELSE <<"bare", v[2]>>

\* json.load of one lexeme
JsonDecode(lex) ==
    IF lex[1] = "quoted" THEN PyStr(lex[2])
    ELSE IF lex[2] = "true" THEN PyTrue
    ELSE IF lex[2] = "false" THEN PyFalse
    ELSE IF lex[2] = "null" THEN PyNone
    ELSE PyInt(lex[2])

\* json.dump(ret, f, ensure_ascii=False): the text of the file
json_dump(ret) == [k \in DOMAIN ret |-> JsonEncode(ret[k])]

\* AttrDict(json.load(f))
json_load(text) == [k \in DOMAIN text |-> JsonDecode(text[k])]

\* The payloads the transport returns: `ok`, and `error` when ok is falsy
Payloads ==
    { [ok |-> PyTrue, members |-> PyStr("1")],
      [ok |-> PyFalse, error |-> PyStr("invalid_auth")],
      [ok |-> PyInt("0"), error |-> PyStr("true")] }

----------------------------------------------------------------------------
(* CachedClient *)

Clients == {"c1", "c2"}
Dirs == {<<"d1">>, <<"d2">>}
Params == {"p1", "p2"}

\* API method names, as strings of tokens
Methods ==
    { <<"usergroups", ".", "list">>,
      <<"usergroups", ".", "users", ".", "list">>,
      <<"channels", ".", "history">>,
      <<"list">> }

RECURSIVE SplitFrom(_, _, _)
\* the components of s from position i on, cur being the one under way
SplitFrom(s, i, cur) ==
    IF i > Len(s) THEN <<cur>>
    ELSE IF s[i] = "." THEN <<cur>> \o SplitFrom(s, i + 1, <<>>)
    ELSE SplitFrom(s, i + 1, Append(cur, s[i]))

\* method.split(".")
Split(method) == SplitFrom(method, 1, <<>>)

\* len(comp) >= 2 and comp[-1] in ["list"]
IsListCall(comp) == Len(comp) >= 2 /\ comp[Len(comp)] \in {<<"list">>}

\* "%s/%s-%s.json" % (self.cache_dir, comp[0], comp[-1])
CacheFile(dir, comp) == dir \o <<"/">> \o comp[1] \o <<"-">> \o comp[Len(comp)] \o <<".json">>

AllPaths == {CacheFile(d, Split(m)) : d \in Dirs, m \in {x \in Methods : IsListCall(Split(x))}}

\* faulty variant of Inner: the response is written whatever its ok
InnerWriteAlways(cache, fresh) ==
    IF cache \in DOMAIN disk
    THEN [resp |-> json_load(disk[cache]), source |-> "disk", calls |-> 0,
          disk |-> disk]
    ELSE [resp |-> fresh, source |-> "fresh", calls |-> 1,
          disk |-> (cache :> json_dump(fresh)) @@ disk]

\* _inner() of with_cache: the file when it is there, else the call, written
\* to the file when its ok is truthy. `disk` is the file system afterwards.
Inner(cache, fresh) ==
    IF cache \in DOMAIN disk
    THEN [resp |-> json_load(disk[cache]), source |-> "disk", calls |-> 0,
          disk |-> disk]
    ELSE [resp |-> fresh, source |-> "fresh", calls |-> 1,
          disk |-> IF Truthy(fresh.ok) THEN (cache :> json_dump(fresh)) @@ disk ELSE disk]

\* faulty variant of WithCache: the memo is not consulted
WithCacheNoMemo(c, cache, fresh) ==
    LET r == Inner(cache, fresh)
    IN  [resp |-> r.resp, source |-> r.source, calls |-> r.calls, disk |-> r.disk,
         memo |-> (cache :> r.resp) @@ memo[c], key |-> <<>>]

\* with_cache(cache, pred): the memo first, else _inner(), memoized.
\* `memo` is self._cache afterwards.
WithCache(c, cache, fresh) ==
    IF cache \in DOMAIN memo[c]
    THEN [resp |-> memo[c][cache], source |-> "memo", calls |-> 0, disk |-> disk,
          memo |-> memo[c], key |-> <<>>]
    ELSE LET r == Inner(cache, fresh)
         IN  [resp |-> r.resp, source |-> r.source, calls |-> r.calls, disk |-> r.disk,
              memo |-> (cache :> r.resp) @@ memo[c], key |-> <<>>]

\* api_call up to the ok check: through the cache for a list call, else pred()
Resolve(c, comp, fresh) ==
    IF IsListCall(comp)
    THEN [WithCache(c, CacheFile(cache_dir[c], comp), fresh) EXCEPT
            !.key = CacheFile(cache_dir[c], comp)]
    ELSE [resp |-> fresh, source |-> "direct", calls |-> 1, disk |-> disk,
          memo |-> memo[c], key |-> <<>>]

\* faulty variant of Outcome: the response is returned unchecked
OutcomeNoCheck(resp) == [kind |-> "return", error |-> PyNone]

\* `if not resp.ok: raise ApiFailed(resp.error)`, else `return resp`
Outcome(resp) ==
    IF ~Truthy(resp.ok)
    THEN [kind |-> "ApiFailed", error |-> resp.error]
    ELSE [kind |-> "return", error |-> PyNone]

\* `sent` is the parameters the transport was called with ("": it was not called),
\* `key` the cache path of the call (<<>>: the call has none)
NoCall ==
    [op |-> "none", client |-> "c1", key |-> <<>>, sent |-> "",
     source |-> "none", resp |-> [ok |-> PyNone], kind |-> "none", error |-> PyNone,
     calls |-> 0]

\* CachedClient.api_call(method, **params) on client c; `fresh` is what the
\* transport answers if it is asked
ApiCall(c, method, params, fresh) ==
    LET r == Resolve(c, Split(method), fresh)
        o == Outcome(r.resp)
        resolved == DOMAIN r.memo \ DOMAIN memo[c]
    IN  /\ transport_calls + r.calls <= MaxTransport
        /\ transport_calls' = transport_calls + r.calls
        /\ disk' = r.disk
        /\ memo' = [memo EXCEPT ![c] = r.memo]
        /\ last' = [op |-> "api_call", client |-> c, key |-> r.key,
                    sent |-> IF r.calls = 1 THEN params ELSE "",
                    source |-> r.source, resp |-> r.resp, kind |-> o.kind,
                    error |-> o.error, calls |-> r.calls]
        /\ first' = [first EXCEPT ![c] =
                        [k \in resolved \ DOMAIN first[c] |-> r.resp] @@ first[c]]
        /\ written' = [k \in {x \in DOMAIN r.disk : x \notin DOMAIN disk \/ r.disk[x] # disk[x]}
                         |-> fresh] @@ written
        /\ UNCHANGED <<cache_dir, env_steps>>

Restrict(f, S) == [x \in S |-> f[x]]

\* another program (or the user) writes a payload into a cache file
EnvWrite(path, payload) ==
    /\ env_steps < MaxEnv
    /\ env_steps' = env_steps + 1
    /\ disk' = (path :> json_dump(payload)) @@ disk
    /\ written' = Restrict(written, DOMAIN written \ {path})
    /\ last' = [NoCall EXCEPT !.op = "env"]
    /\ UNCHANGED <<cache_dir, memo, transport_calls, first>>

\* a cache file is deleted
EnvDelete(path) ==
    /\ env_steps < MaxEnv
    /\ path \in DOMAIN disk
    /\ env_steps' = env_steps + 1
    /\ disk' = Restrict(disk, DOMAIN disk \ {path})
    /\ written' = Restrict(written, DOMAIN written \ {path})
    /\ last' = [NoCall EXCEPT !.op = "env"]
    /\ UNCHANGED <<cache_dir, memo, transport_calls, first>>

----------------------------------------------------------------------------
(* Channel.history_after *)

\* count=1000
Count == 1000

Timestamps == 1..MaxTs

RECURSIVE Descending(_)
\* the members of the set S as a newest-first sequence
Descending(S) ==
    IF S = {} THEN <<>>
    ELSE LET m == CHOOSE x \in S : \A y \in S : y <= x
         IN  <<m>> \o Descending(S \ {m})

\* the `messages` of a page, newest first as the API returns them
PageMessages == {Descending(S) : S \in {T \in SUBSET Timestamps : Cardinality(T) <= MaxPageLen}}

\* what the transport may answer to channels.history
HistoryPayloads ==
    [ok : {PyTrue}, messages : PageMessages, has_more : BOOLEAN]
    \cup {[ok |-> PyFalse, error |-> PyStr("ratelimited")]}

\* the values a caller passes as `inclusive` (0 is the default)
InclusiveArgs == {PyInt("0"), PyInt("1"), PyTrue, PyFalse}

\* Client.api_call: a bool parameter goes out as 1 or 0
BoolParam(v) ==
    IF v[1] = "bool" THEN (IF v[2] = "True" THEN PyInt("1") ELSE PyInt("0")) ELSE v

\* reversed(resp.messages)
Reversed(s) == [i \in 1..Len(s) |-> s[Len(s) + 1 - i]]

\* faulty variant of Extend: the page is appended newest first
ExtendNotReversed(msgs, page) == msgs \o page

\* messages.extend(reversed(resp.messages))
Extend(msgs, page) == msgs \o Reversed(page)

\* faulty variant of InclusiveAfter: the flag is never cleared
InclusiveKept(incl, page) == incl

\* the flag for the requests after a page: False once a page held messages
InclusiveAfter(incl, page) == IF Len(page) > 0 THEN PyFalse ELSE incl

NoRequest == [oldest |-> 0, count |-> 0, inclusive |-> PyNone, wire |-> PyNone]

\* history_after(ts, inclusive=incl) is called: lines 190-193
HistoryAfter(ts, incl) ==
    /\ h_pc \in {"idle", "done", "raised"}
    /\ h_pc' = "loop"
    /\ messages' = <<>>
    /\ next_ts' = ts
    /\ has_more' = TRUE
    /\ inclusive' = incl
    /\ h_args' = [ts |-> ts, inclusive |-> incl]
    /\ h_req' = NoRequest
    /\ h_nreq' = 0
    /\ h_pages' = <<>>
    /\ h_in_bound' = TRUE

\* `while has_more:` holds and self.history(oldest=next_ts, count=1000,
\* inclusive=inclusive) goes out
HistoryRequest ==
    /\ h_pc = "loop"
    /\ has_more
    /\ h_pc' = "wait"
    /\ h_req' = [oldest |-> next_ts, count |-> Count, inclusive |-> inclusive,
                 wire |-> BoolParam(inclusive)]
    /\ h_nreq' = IF h_nreq >= 2 THEN 2 ELSE h_nreq + 1
    /\ UNCHANGED <<messages, next_ts, has_more, inclusive, h_args, h_pages, h_in_bound>>

\* the page arrives (through CachedClient.api_call, uncached): lines 196-201
HistoryResponse(page) ==
    /\ h_pc = "wait"
    /\ IF Outcome(page).kind = "ApiFailed"
       THEN /\ h_pc' = "raised"
            /\ UNCHANGED <<messages, next_ts, has_more, inclusive, h_pages, h_in_bound>>
       ELSE /\ Len(messages) + Len(page.messages) <= MaxMessages
            /\ h_pc' = "loop"
            /\ has_more' = page.has_more
            /\ messages' = IF Len(page.messages) > 0
                           THEN Extend(messages, page.messages) ELSE messages
            /\ next_ts' = IF Len(page.messages) > 0
                          THEN messages'[Len(messages')] ELSE next_ts
            /\ inclusive' = InclusiveAfter(inclusive, page.messages)
            /\ h_pages' = IF Len(page.messages) > 0
                          THEN Append(h_pages, page.messages) ELSE h_pages
            /\ h_in_bound' =
                 (h_in_bound /\ \A i \in 1..Len(page.messages) :
                    \/ page.messages[i] > h_req.oldest
                    \/ Truthy(h_req.wire) /\ page.messages[i] = h_req.oldest)
    /\ UNCHANGED <<h_args, h_req, h_nreq>>

\* `while has_more:` fails: return ChannelHistory(self._client, messages, has_more)
HistoryReturn ==
    /\ h_pc = "loop"
    /\ ~has_more
    /\ h_pc' = "done"
    /\ UNCHANGED <<messages, next_ts, has_more, inclusive, h_args, h_req, h_nreq,
                   h_pages, h_in_bound>>

----------------------------------------------------------------------------
(* Emojies / Emoji *)

EmojiNames == {<<"smile">>, <<"grin">>, <<"ghost">>}

\* the values of an emoji.list mapping: an image URL or "alias:<name>"
EmojiImages ==
    { <<"https://x/smile.png">>, <<"https://x/ghost.png">>, <<"alias:">>,
      <<"alias:", "missing">> }
    \cup {<<"alias:">> \o n : n \in EmojiNames}

EmojiMappings == UNION {[D -> EmojiImages] : D \in SUBSET EmojiNames}

\* image.startswith("alias:")
StartsWithAlias(image) == Len(image) >= 1 /\ image[1] = "alias:"

\* re.match("alias:(.+)", image): the group, or no match (<<>>) when nothing follows
AliasMatch(image) == IF Len(image) >= 2 THEN <<Tail(image)>> ELSE <<>>

Raised(name, image, error) ==
    [status |-> error, name |-> name, image |-> image, type |-> "", image_url |-> <<>>]

RECURSIVE EmojiGet(_, _, _)
\* faulty variant of EmojiGet: the target is looked up with self._parent[...],
\* so an absent target raises KeyError
EmojiGetAliasKeyError(parent, key, depth) ==
    IF key \notin DOMAIN parent THEN Raised(key, <<>>, "KeyError")
    ELSE LET image == parent[key] IN
         IF ~StartsWithAlias(image)
         THEN [status |-> "ok", name |-> key, image |-> image, type |-> "image",
               image_url |-> <<image>>]
         ELSE IF AliasMatch(image) = <<>> THEN Raised(key, image, "TypeError")
         ELSE IF depth = 0 THEN Raised(key, image, "RecursionError")
         ELSE LET alias_to == EmojiGet(parent, AliasMatch(image)[1], depth - 1) IN
              IF alias_to.status # "ok" THEN Raised(key, image, alias_to.status)
              ELSE [status |-> "ok", name |-> key, image |-> image, type |-> "alias",
                    image_url |-> alias_to.image_url]

\* Emojies.__getitem__(key), which constructs Emoji(self, key, image); _init_alias
\* looks the target up with self._parent.get, which comes back here. `depth` is
\* the number of nested lookups the interpreter still allows: more nested
\* lookups than the mapping has names is a cycle, a RecursionError.
\* image_url is <<url>>, or <<>> for None.
EmojiGet(parent, key, depth) ==
    IF key \notin DOMAIN parent THEN Raised(key, <<>>, "KeyError")
    ELSE LET image == parent[key] IN
         IF ~StartsWithAlias(image)
         THEN [status |-> "ok", name |-> key, image |-> image, type |-> "image",
               image_url |-> <<image>>]
         ELSE IF AliasMatch(image) = <<>> THEN Raised(key, image, "TypeError")
         ELSE IF depth = 0 THEN Raised(key, image, "RecursionError")
         ELSE LET alias_to == EmojiGet(parent, AliasMatch(image)[1], depth - 1) IN
              IF alias_to.status = "KeyError"
              THEN [status |-> "ok", name |-> key, image |-> image, type |-> "alias",
                    image_url |-> <<>>]
              ELSE IF alias_to.status # "ok" THEN Raised(key, image, alias_to.status)
              ELSE [status |-> "ok", name |-> key, image |-> image, type |-> "alias",
                    image_url |-> alias_to.image_url]

\* Emojies[key]
EmojiesGetItem(key) ==
    /\ e_key' = key
    /\ e_result' = EmojiGet(emojies, key, Cardinality(DOMAIN emojies))
    /\ UNCHANGED emojies

----------------------------------------------------------------------------
(* Channels / Users *)

MemberNames == {"general", "random"}
MemberIds == {"C1", "C2"}
Members == [name : MemberNames, id : MemberIds]

Last(S) == CHOOSE i \in S : \A j \in S : j <= i

\* _createIndex: `for x in self.data: by_name[x.name] = x` (a later member replaces
\* an earlier one of the same name)
CreateIndexByName(d) ==
    [n \in {d[i].name : i \in 1..Len(d)} |-> d[Last({i \in 1..Len(d) : d[i].name = n})]]

\* `by_id[x.id] = x` of Users._createIndex; Channels has no index by id
CreateIndexById(kind, d) ==
    IF kind = "Users"
    THEN [n \in {d[i].id : i \in 1..Len(d)} |-> d[Last({i \in 1..Len(d) : d[i].id = n})]]
    ELSE <<>>

\* faulty variant of NameIndex: the index follows the sequence
LiveNameIndex == CreateIndexByName(data)

\* the mapping byName reads: the one _createIndex left at construction
NameIndex == idxByName

NoLookup == [op |-> "none", arg |-> "", status |-> "none", entity |-> [name |-> "", id |-> ""]]

\* byName(name): Channel/User(self._client, self.idxByName[name])
ByName(name) ==
    /\ i_result' = IF name \in DOMAIN NameIndex
                   THEN [op |-> "byName", arg |-> name, status |-> "ok",
                         entity |-> NameIndex[name]]
                   ELSE [NoLookup EXCEPT !.op = "byName", !.arg = name, !.status = "KeyError"]
    /\ UNCHANGED <<coll_kind, data, idxByName, idxById, built_from>>

\* Users.byId(id): User(self._client, self.idxById[id])
ById(id) ==
    /\ coll_kind = "Users"
    /\ i_result' = IF id \in DOMAIN idxById
                   THEN [op |-> "byId", arg |-> id, status |-> "ok", entity |-> idxById[id]]
                   ELSE [NoLookup EXCEPT !.op = "byId", !.arg = id, !.status = "KeyError"]
    /\ UNCHANGED <<coll_kind, data, idxByName, idxById, built_from>>

\* the sequence is mutated after construction: UserList.append
ListAppend(m) ==
    /\ Len(data) < MaxData
    /\ data' = Append(data, m)
    /\ i_result' = NoLookup
    /\ UNCHANGED <<coll_kind, idxByName, idxById, built_from>>

\* UserList.pop(i)
ListRemove(i) ==
    /\ i \in 1..Len(data)
    /\ data' = SubSeq(data, 1, i - 1) \o SubSeq(data, i + 1, Len(data))
    /\ i_result' = NoLookup
    /\ UNCHANGED <<coll_kind, idxByName, idxById, built_from>>

----------------------------------------------------------------------------
(* Specifications: one per component, the others at rest *)

CacheAtRest ==
    /\ cache_dir = [c \in Clients |-> <<"d1">>]
    /\ memo = [c \in Clients |-> <<>>]
    /\ disk = <<>>
    /\ transport_calls = 0
    /\ env_steps = 0
    /\ last = NoCall
    /\ first = [c \in Clients |-> <<>>]
    /\ written = <<>>

HistoryAtRest ==
    /\ h_pc = "idle"
    /\ messages = <<>>
    /\ next_ts = 0
    /\ has_more = TRUE
    /\ inclusive = PyInt("0")
    /\ h_args = [ts |-> 0, inclusive |-> PyInt("0")]
    /\ h_req = NoRequest
    /\ h_nreq = 0
    /\ h_pages = <<>>
    /\ h_in_bound = TRUE

EmojiAtRest ==
    /\ emojies = <<>>
    /\ e_key = <<>>
    /\ e_result = Raised(<<>>, <<>>, "none")

IndexAtRest ==
    /\ coll_kind = "Channels"
    /\ data = <<>>
    /\ idxByName = <<>>
    /\ idxById = <<>>
    /\ built_from = <<>>
    /\ i_result = NoLookup

\* CachedClient(cache_dir=d): two clients of one process, an empty or a
\* populated cache directory
InitCache ==
    /\ cache_dir \in {f \in [Clients -> Dirs] : f["c1"] = <<"d1">>}
    /\ memo = [c \in Clients |-> <<>>]
    /\ disk = <<>>
    /\ transport_calls = 0
    /\ env_steps = 0
    /\ last = NoCall
    /\ first = [c \in Clients |-> <<>>]
    /\ written = <<>>
    /\ HistoryAtRest /\ EmojiAtRest /\ IndexAtRest

NextCache ==
    \/ \E c \in Clients, m \in Methods, p \in Params, fresh \in Payloads :
         ApiCall(c, m, p, fresh) /\ UNCHANGED <<historyVars, emojiVars, indexVars>>
    \/ \E path \in AllPaths, payload \in Payloads :
         EnvWrite(path, payload) /\ UNCHANGED <<historyVars, emojiVars, indexVars>>
    \/ \E path \in AllPaths :
         EnvDelete(path) /\ UNCHANGED <<historyVars, emojiVars, indexVars>>

SpecCache == InitCache /\ [][NextCache]_vars

InitHistory == CacheAtRest /\ HistoryAtRest /\ EmojiAtRest /\ IndexAtRest

OthersAtRest == UNCHANGED <<cacheVars, emojiVars, indexVars>>

NextHistory ==
    \/ \E ts \in 0..MaxTs, incl \in InclusiveArgs : HistoryAfter(ts, incl) /\ OthersAtRest
    \/ HistoryRequest /\ OthersAtRest
    \/ \E page \in HistoryPayloads : HistoryResponse(page) /\ OthersAtRest
    \/ HistoryReturn /\ OthersAtRest

SpecHistory == InitHistory /\ [][NextHistory]_vars

\* the interpreter keeps running the loop, and the transport answers every request
FairHistory ==
    /\ SpecHistory
    /\ WF_vars(HistoryRequest /\ OthersAtRest)
    /\ WF_vars(\E page \in HistoryPayloads : HistoryResponse(page) /\ OthersAtRest)
    /\ WF_vars(HistoryReturn /\ OthersAtRest)

\* Emojies(client, resp.emoji)
InitEmoji ==
    /\ emojies \in EmojiMappings
    /\ e_key = <<>>
    /\ e_result = Raised(<<>>, <<>>, "none")
    /\ CacheAtRest /\ HistoryAtRest /\ IndexAtRest

NextEmoji ==
    \E key \in EmojiNames \cup {<<"missing">>} :
        EmojiesGetItem(key) /\ UNCHANGED <<cacheVars, historyVars, indexVars>>

SpecEmoji == InitEmoji /\ [][NextEmoji]_vars

\* Channels(client, data) / Users(client, data): super().__init__(data), _createIndex()
InitIndex ==
    /\ coll_kind \in {"Channels", "Users"}
    /\ data \in UNION {[1..n -> Members] : n \in 0..MaxInitData}
    /\ idxByName = CreateIndexByName(data)
    /\ idxById = CreateIndexById(coll_kind, data)
    /\ built_from = data
    /\ i_result = NoLookup
    /\ CacheAtRest /\ HistoryAtRest /\ EmojiAtRest

NextIndex ==
    \/ \E name \in MemberNames : ByName(name) /\ UNCHANGED <<cacheVars, historyVars, emojiVars>>
    \/ \E id \in MemberIds : ById(id) /\ UNCHANGED <<cacheVars, historyVars, emojiVars>>
    \/ \E m \in Members : ListAppend(m) /\ UNCHANGED <<cacheVars, historyVars, emojiVars>>
    \/ \E i \in 1..MaxData : ListRemove(i) /\ UNCHANGED <<cacheVars, historyVars, emojiVars>>

SpecIndex == InitIndex /\ [][NextIndex]_vars

----------------------------------------------------------------------------
(* Claims about CachedClient, under SpecCache *)

\* the step is an api_call of client c whose cache path is key (<<>>: it has
\* none); every other step of SpecCache counts in env_steps
ApiStep(c, key) ==
    /\ env_steps' = env_steps
    /\ last'.op = "api_call"
    /\ last'.client = c
    /\ last'.key = key

AnyApiCall(c, m) == \E p \in Params, f \in Payloads : ApiCall(c, m, p, f)

\* C1: whatever the method and whether the response came from the memo, from the
\* cache file or from the transport, api_call returns it when its ok is truthy
\* and raises ApiFailed carrying its error when its ok is falsy.
C1_UniformFailureContract ==
    last.op = "api_call" =>
        /\ last.source \in {"memo", "disk", "fresh", "direct"}
        /\ last.source = "memo" => last.resp = memo[last.client][last.key]
        /\ last.source = "disk" => last.resp = json_load(disk[last.key])
        /\ Truthy(last.resp.ok) => last.kind = "return"
        /\ ~Truthy(last.resp.ok) =>
              last.kind = "ApiFailed" /\ last.error = last.resp.error

\* a response read from a cache file whose ok is falsy was raised as ApiFailed
C1_Witness ==
    /\ last.op = "api_call"
    /\ last.source = "disk"
    /\ last.kind = "ApiFailed"
    /\ last.error = PyStr("invalid_auth")

\* C2: once a client has resolved a cache key, every later call of that client
\* with that key gives the value of the first resolution (or raises its
\* ApiFailed) from the memo, with no transport call and the files untouched,
\* whatever the parameters and whatever happened to the cache file meanwhile.
C2_MemoizedForLife ==
    [][\A c \in Clients : \A key \in DOMAIN first[c] :
         ApiStep(c, key) =>
            /\ last'.source = "memo"
            /\ last'.resp = first[c][key]
            /\ last'.kind = Outcome(first[c][key]).kind
            /\ last'.error = Outcome(first[c][key]).error
            /\ transport_calls' = transport_calls
            /\ disk' = disk
            /\ first' = first]_vars

\* a key whose file was written and then deleted is still served from the memo
C2_Witness ==
    /\ last.op = "api_call"
    /\ last.source = "memo"
    /\ last.calls = 0
    /\ Truthy(last.resp.ok)
    /\ last.key \notin DOMAIN disk
    /\ transport_calls = 1

\* C4: a client that first resolves a key whose cache file exists returns the
\* record stored in the file, without a transport call and without rewriting
\* the file; for a file written by a client and not changed since, that record
\* equals the response the writer received.
C4_DiskResolution ==
    [][\A c \in Clients : \A key \in DOMAIN disk \ DOMAIN first[c] :
         ApiStep(c, key) =>
            /\ last'.source = "disk"
            /\ last'.resp = json_load(disk[key])
            /\ transport_calls' = transport_calls
            /\ disk' = disk
            /\ key \in DOMAIN written => last'.resp = written[key]]_vars

\* client c2 read back from the file what client c1 had received and written
C4_Witness ==
    /\ last.op = "api_call"
    /\ last.client = "c2"
    /\ last.source = "disk"
    /\ last.key \in DOMAIN written
    /\ last.key \in DOMAIN first["c1"]
    /\ last.resp = written[last.key]
    /\ last.resp = first["c1"][last.key]

HasListShape(m) == Len(Split(m)) = 2 /\ Split(m)[2] = <<"list">>

\* C5: a call whose method is not `<resource>.list` is never cached: it calls the
\* transport exactly once and leaves the memo and the cache files as they were;
\* the key of `<resource>.list` is {cacheDir}/{resource}-list.json.
C5_OnlyResourceListCached ==
    [][\A c \in Clients, m \in Methods :
         /\ (AnyApiCall(c, m) /\ ~HasListShape(m)) =>
              /\ transport_calls' = transport_calls + 1
              /\ last'.source = "direct"
              /\ memo' = memo
              /\ disk' = disk
         /\ (AnyApiCall(c, m) /\ HasListShape(m)) =>
              last'.key = cache_dir[c] \o <<"/">> \o Split(m)[1] \o <<"-">>
                          \o <<"list">> \o <<".json">>]_vars

\* C9: api_call writes a cache file only for a transport response whose ok is
\* truthy and only where no file was; it never changes or removes a file.
C9_WritesOnlyFreshOk ==
    [][\A c \in Clients : \A key \in AllPaths \cup {<<>>} :
         ApiStep(c, key) =>
            /\ \A f \in DOMAIN disk : f \in DOMAIN disk' /\ disk'[f] = disk[f]
            /\ \A f \in DOMAIN disk' \ DOMAIN disk :
                 /\ f = key
                 /\ last'.source = "fresh"
                 /\ last'.calls = 1
                 /\ Truthy(last'.resp.ok)
                 /\ Truthy(json_load(disk'[f]).ok)]_vars

\* a transport response with a falsy ok was raised and left no file behind
C9_Witness ==
    /\ last.op = "api_call"
    /\ last.source = "fresh"
    /\ last.kind = "ApiFailed"
    /\ last.key \notin DOMAIN disk
    /\ disk # <<>>

----------------------------------------------------------------------------
(* Claims about Channel.history_after, under SpecHistory and FairHistory *)

Ascending(s) == \A i \in 1..Len(s) - 1 : s[i] < s[i + 1]

RECURSIVE ConcatReversed(_)
\* the pages one after the other, each one turned oldest-first
ConcatReversed(pages) ==
    IF pages = <<>> THEN <<>>
    ELSE Reversed(Head(pages)) \o ConcatReversed(Tail(pages))

Occurrences(s, ts) == Cardinality({i \in 1..Len(s) : s[i] = ts})

RECURSIVE OccurrencesInPages(_, _)
OccurrencesInPages(pages, ts) ==
    IF pages = <<>> THEN 0
    ELSE Occurrences(Head(pages), ts) + OccurrencesInPages(Tail(pages), ts)

SpecExamplePages == << <<3, 2>>, <<1>> >>

\* no message is in two pages, or twice in one
PagesDisjoint(pages) ==
    \A ts \in Timestamps : OccurrencesInPages(pages, ts) <= 1

\* C3 as the spec states it: for any sequence of newest-first pages (of distinct
\* messages) the returned list is in ascending timestamp order, holds every
\* message of every page exactly once, and has_more is false.
C3_OldestFirstForAnyPages ==
    (h_pc = "done" /\ PagesDisjoint(h_pages)) =>
        /\ Ascending(messages)
        /\ \A ts \in Timestamps :
             Occurrences(messages, ts) = OccurrencesInPages(h_pages, ts)
        /\ has_more = FALSE
        /\ h_pages = SpecExamplePages => messages = <<1, 2, 3>>

\* C3 amended: the returned list is the pages in the order received, each page
\* reversed (2, 3, 1 for the spec's example), so it holds every message of every
\* page exactly once, and has_more is false; it is in ascending order when every
\* page held only messages after the `oldest` of its request (or at it, on an
\* inclusive request).
C3_PagesReversedInOrder ==
    h_pc = "done" =>
        /\ messages = ConcatReversed(h_pages)
        /\ \A ts \in Timestamps :
             Occurrences(messages, ts) = OccurrencesInPages(h_pages, ts)
        /\ has_more = FALSE
        /\ h_pages = SpecExamplePages => messages = <<2, 3, 1>>
        /\ h_in_bound => Ascending(messages)

\* two pages, each after the oldest asked for, came back as 1, 2, 3
C3_Witness ==
    /\ h_pc = "done"
    /\ h_pages = << <<2, 1>>, <<3>> >>
    /\ h_in_bound
    /\ messages = <<1, 2, 3>>

\* C6 as the spec states it: the first history call carries the caller's
\* inclusive flag and every later call of the run carries false.
C6_InclusiveOnlyOnFirstCall ==
    h_pc = "wait" =>
        /\ h_nreq = 1 => h_req.inclusive = h_args.inclusive
        /\ h_nreq = 2 => ~Truthy(h_req.inclusive) /\ h_req.wire = PyInt("0")

\* C6 amended: a history call carries the caller's inclusive flag as long as no
\* page of the run has held messages, and False (0 on the wire) after the first
\* page that did.
C6_InclusiveUntilFirstMessages ==
    h_pc = "wait" =>
        /\ h_req.inclusive = (IF h_pages = <<>> THEN h_args.inclusive ELSE PyFalse)
        /\ h_req.wire = BoolParam(h_req.inclusive)
        /\ h_req.oldest = next_ts
        /\ h_nreq = 1 => h_req.inclusive = h_args.inclusive

\* a later call of a run that was asked to be inclusive went out with False
C6_Witness ==
    /\ h_pc = "wait"
    /\ h_nreq = 2
    /\ h_pages # <<>>
    /\ Truthy(h_args.inclusive)
    /\ h_req.inclusive = PyFalse
    /\ h_req.wire = PyInt("0")

\* C10: every history_after call comes to an end (it returns, or the call
\* raises), also when the transport reports has_more with no messages.
C10_HistoryAfterTerminates ==
    (h_pc \in {"loop", "wait"}) ~> (h_pc \in {"done", "raised"})

----------------------------------------------------------------------------
(* Claims about Emojies, under SpecEmoji *)

SmileUrl == <<"https://x/smile.png">>

\* C7: Emojies[k] of an entry `alias:<target>` has type "alias" and the image_url
\* of Emojies[<target>], None when the target is absent (no error); any other
\* entry has type "image" and its own value as image_url.
C7_AliasResolution ==
    e_key \in DOMAIN emojies =>
        LET image == emojies[e_key] IN
        IF ~StartsWithAlias(image)
        THEN /\ e_result.status = "ok"
             /\ e_result.type = "image"
             /\ e_result.image_url = <<image>>
        ELSE IF Len(image) = 1 THEN TRUE
        ELSE IF Tail(image) \notin DOMAIN emojies
        THEN /\ e_result.status = "ok"
             /\ e_result.type = "alias"
             /\ e_result.image_url = <<>>
        ELSE LET target == EmojiGet(emojies, Tail(image), Cardinality(DOMAIN emojies)) IN
             target.status = "ok" =>
                /\ e_result.status = "ok"
                /\ e_result.type = "alias"
                /\ e_result.image_url = target.image_url
                /\ (Tail(image) = <<"smile">> /\ emojies[<<"smile">>] = SmileUrl)
                      => e_result.image_url = <<SmileUrl>>

\* {smile: url, grin: alias:smile}: grin resolved to smile's url
C7_Witness ==
    /\ e_key = <<"grin">>
    /\ DOMAIN emojies = {<<"smile">>, <<"grin">>}
    /\ emojies[<<"smile">>] = SmileUrl
    /\ emojies[<<"grin">>] = <<"alias:", "smile">>
    /\ e_result.status = "ok"
    /\ e_result.type = "alias"
    /\ e_result.image_url = <<SmileUrl>>

----------------------------------------------------------------------------
(* Claims about Channels / Users, under SpecIndex *)

NamesAtConstruction == {built_from[i].name : i \in 1..Len(built_from)}
IdsAtConstruction == {built_from[i].id : i \in 1..Len(built_from)}
MembersAtConstruction == {built_from[i] : i \in 1..Len(built_from)}

\* C8: byName(n) gives a member of the construction-time sequence named n for
\* every name present then and a KeyError for any other name (byId likewise for
\* Users), whatever was appended to or removed from the sequence since.
C8_IndicesFrozenAtConstruction ==
    /\ i_result.op = "byName" =>
         IF i_result.arg \in NamesAtConstruction
         THEN /\ i_result.status = "ok"
              /\ i_result.entity \in MembersAtConstruction
              /\ i_result.entity.name = i_result.arg
         ELSE i_result.status = "KeyError"
    /\ i_result.op = "byId" =>
         IF i_result.arg \in IdsAtConstruction
         THEN /\ i_result.status = "ok"
              /\ i_result.entity \in MembersAtConstruction
              /\ i_result.entity.id = i_result.arg
         ELSE i_result.status = "KeyError"
    /\ (/\ i_result.op = "byName"
        /\ i_result.arg = "general"
        /\ built_from = <<[name |-> "general", id |-> "C1"], [name |-> "random", id |-> "C2"]>>)
         => i_result.entity.id = "C1"

\* a member appended after construction is in the sequence and is not found
C8_Witness ==
    /\ i_result.op = "byName"
    /\ i_result.status = "KeyError"
    /\ \E i \in 1..Len(data) : data[i].name = i_result.arg
    /\ built_from # <<>>

====
